---- MODULE Spec2Model ----
(***************************************************************************)
(* State-machine model of src/main.py: the !addwatch command with its      *)
(* AnimePager selection view, the APScheduler job store filled by          *)
(* schedule_episode_from_watchlist, and the notify path                    *)
(* check_and_announce_episode with its announced_episodes set.             *)
(*                                                                         *)
(* The program runs on one asyncio event loop: code between two awaits is  *)
(* one atomic step, and every await that another task can observe is a     *)
(* boundary between two actions.                                           *)
(***************************************************************************)
EXTENDS Integers, Sequences, FiniteSets, TLC

\* ------------------------------------------------------------------------
\* Python values.  An Optional value is a sequence of length <= 1.
\* ------------------------------------------------------------------------
None == <<>>
Some(v) == <<v>>

\* Python truthiness of an Optional[str]: None and "" are falsy.
Truthy(o) == o # None /\ o[1] # ""

Range(s) == {s[i] : i \in DOMAIN s}

\* ------------------------------------------------------------------------
\* Bounds of the model.
\* ------------------------------------------------------------------------
\* Offset in seconds of the process's local time zone from UTC.
UTCOffset == 3600

\* The !addwatch invocations that can be in flight at once.  The section of
\* add_watch that changes the watch list and the jobs holds no await, so a
\* second invocation can only run before or after it.
Flows == {1}

\* The firings of a job and the passages of time that are followed.
MaxFirings == 2
MaxTicks == 2

\* The raw texts users type after !addwatch.
RawInputs == {"x"}

\* ------------------------------------------------------------------------
\* What the search provider can answer.  A media item carries its title
\* variants and, optionally, the next-airing pair.
\* ------------------------------------------------------------------------
Media(en, ro, nae) ==
  [title |-> [english |-> en, romaji |-> ro], nextAiringEpisode |-> nae]

Airing(at, ep) == Some([airingAt |-> at, episode |-> ep])

\* 2025-11-06 00:00:30 UTC (a Thursday) and 2025-11-09 23:59:59 UTC (a
\* Sunday, already Monday east of Greenwich); -1 lies outside the range the
\* platform's localtime() accepts.
SearchResponses ==
  { <<>>,
    << Media(Some("Ab"), Some("ab"), Airing(Some(1762387230), Some(1))),
       Media(Some("Ab"), Some(""),   Airing(Some(1762732799), Some(2))),
       Media(Some("Ab"), None,       Airing(Some(-1), Some(1))) >>,
    << Media(Some(""),   Some("ab"), None),
       Media(None,       Some("ab"), Airing(Some(1762387230), None)) >>,
    << Media(None,       None,       Airing(Some(1762732799), Some(2))) >>,
    << Media(Some(""),   Some(""),   Airing(None, Some(1))),
       Media(None,       Some(""),   None),
       Media(Some(""),   None,       None) >> }

VARIABLES
  WATCH_LIST,          \* main.py:35, the list of watched titles
  announced_episodes,  \* main.py:44/362, keys already announced
  jobs,                \* the job store of `scheduler` (main.py:45)
  running,             \* scheduler.running
  sent,                \* key -> number of channel.send calls made for it
  pending,             \* notify coroutines suspended in `await channel.send`
  lastNotify,          \* how the latest step of the notify path ended
  flow,                \* the !addwatch invocations and their AnimePager views
  clock                \* the wall clock and the next_run_time of the job

vars == <<WATCH_LIST, announced_episodes, jobs, running, sent, pending,
          lastNotify, flow, clock>>

\* ------------------------------------------------------------------------
\* check_and_announce_episode
\* ------------------------------------------------------------------------
\* unique_key = f"{title}-{episode}"
unique_key(title, episode) == title \o "-" \o ToString(episode)

\* Mutant: the membership test is missing.
not_announced_always(key) == TRUE

\* `unique_key not in announced_episodes`
not_announced(key) == key \notin announced_episodes

CountSend(key) ==
  IF key \in DOMAIN sent THEN [sent EXCEPT ![key] = @ + 1]
  ELSE sent @@ (key :> 1)

\* Mutant: the `return` after the warning is missing, the coroutine goes on
\* without a channel.
check_and_announce_episode_no_return(title, episode, channel) ==
  IF not_announced(unique_key(title, episode))
  THEN /\ announced_episodes' =
            announced_episodes \cup {unique_key(title, episode)}
       /\ sent' = CountSend(unique_key(title, episode))
       /\ pending' = pending \cup {<<title, episode>>}
       /\ lastNotify' = IF channel THEN "sending" ELSE "no_channel"
  ELSE /\ lastNotify' = IF channel THEN "duplicate" ELSE "no_channel"
       /\ UNCHANGED <<announced_episodes, sent, pending>>

\* Mutant: the key is added only after the send returned, so nothing is
\* claimed while the send is awaited.
check_and_announce_episode_claims_late(title, episode, channel) ==
  IF ~channel
  THEN /\ lastNotify' = "no_channel"
       /\ UNCHANGED <<announced_episodes, sent, pending>>
  ELSE IF not_announced(unique_key(title, episode))
  THEN /\ sent' = CountSend(unique_key(title, episode))
       /\ pending' = pending \cup {<<title, episode>>}
       /\ lastNotify' = "sending"
       /\ UNCHANGED announced_episodes
  ELSE /\ lastNotify' = "duplicate"
       /\ UNCHANGED <<announced_episodes, sent, pending>>

\* One invocation of the coroutine up to its first suspension (or its
\* return).  `channel` is what bot.get_channel(CHANNEL_ID) returned: FALSE
\* for None.
check_and_announce_episode(title, episode, channel) ==
  IF ~channel
  THEN /\ lastNotify' = "no_channel"
       /\ UNCHANGED <<announced_episodes, sent, pending>>
  ELSE IF not_announced(unique_key(title, episode))
  THEN /\ announced_episodes' =
            announced_episodes \cup {unique_key(title, episode)}
       /\ sent' = CountSend(unique_key(title, episode))
       /\ pending' = pending \cup {<<title, episode>>}
       /\ lastNotify' = "sending"
  ELSE /\ lastNotify' = "duplicate"
       /\ UNCHANGED <<announced_episodes, sent, pending>>

\* Mutant: a rejected send takes the key back out of the set.
SendCompletes_rolls_back(call, ok) ==
  /\ call \in pending
  /\ pending' = pending \ {call}
  /\ lastNotify' = IF ok THEN "delivered" ELSE "rejected"
  /\ announced_episodes' =
       IF ok THEN announced_episodes
       ELSE announced_episodes \ {unique_key(call[1], call[2])}
  /\ UNCHANGED <<WATCH_LIST, jobs, running, sent, flow, clock>>

\* The awaited channel.send returns (delivered) or raises (rejected); the
\* coroutine has nothing left to run either way.
SendCompletes(call, ok) ==
  /\ call \in pending
  /\ pending' = pending \ {call}
  /\ lastNotify' = IF ok THEN "delivered" ELSE "rejected"
  /\ UNCHANGED <<WATCH_LIST, announced_episodes, jobs, running, sent, flow,
                 clock>>

\* ------------------------------------------------------------------------
\* The scheduler
\* ------------------------------------------------------------------------
\* Mutant: the calendar fields are taken in UTC (utcfromtimestamp).
fromtimestamp_utc(ts) ==
  IF ts < 0 THEN None
  ELSE Some([weekday |-> ((ts \div 86400) + 3) % 7,
             hour    |-> (ts % 86400) \div 3600,
             minute  |-> (ts % 3600) \div 60])

\* datetime.datetime.fromtimestamp: the local calendar fields of a Unix
\* timestamp (1970-01-01 was a Thursday, weekday() = 3), or None where the
\* call raises because the value is outside the platform's range.
fromtimestamp(ts) ==
  IF ts < 0 THEN None
  ELSE Some([weekday |-> (((ts + UTCOffset) \div 86400) + 3) % 7,
             hour    |-> ((ts + UTCOffset) % 86400) \div 3600,
             minute  |-> ((ts + UTCOffset) % 3600) \div 60])

\* Mutant: the job is added beside the one that has its id.
add_job_beside(store, job) == store \cup {job}

\* scheduler.add_job(..., id=job_id, replace_existing=True)
add_job(store, job) == {j \in store : j.id # job.id} \cup {job}

\* Mutant: the error of a timestamp out of range is swallowed.
schedule_episode_from_watchlist_quiet(title, airing_at, episode) ==
  IF fromtimestamp(airing_at) = None THEN Some(jobs)
  ELSE Some(add_job(jobs,
         [id          |-> title \o "-weekly",
          day_of_week |-> fromtimestamp(airing_at)[1].weekday,
          hour        |-> fromtimestamp(airing_at)[1].hour,
          minute      |-> fromtimestamp(airing_at)[1].minute,
          args        |-> <<title, episode>>]))

\* Mutant: the job id carries the episode, so that the jobs of two episodes
\* of one title do not replace each other.
schedule_episode_from_watchlist_id_per_episode(title, airing_at, episode) ==
  IF fromtimestamp(airing_at) = None THEN None
  ELSE Some(add_job(jobs,
         [id          |-> title \o "-" \o ToString(episode) \o "-weekly",
          day_of_week |-> fromtimestamp(airing_at)[1].weekday,
          hour        |-> fromtimestamp(airing_at)[1].hour,
          minute      |-> fromtimestamp(airing_at)[1].minute,
          args        |-> <<title, episode>>]))

\* The job store after schedule_episode_from_watchlist(title, airing_at,
\* episode) returned; None where it raised.
schedule_episode_from_watchlist(title, airing_at, episode) ==
  IF fromtimestamp(airing_at) = None THEN None
  ELSE Some(add_job(jobs,
         [id          |-> title \o "-weekly",
          day_of_week |-> fromtimestamp(airing_at)[1].weekday,
          hour        |-> fromtimestamp(airing_at)[1].hour,
          minute      |-> fromtimestamp(airing_at)[1].minute,
          args        |-> <<title, episode>>]))

\* Seconds from the latest local Monday 00:00:00 to the moment t (the epoch
\* is a Thursday), and the offset of job j's slot into the week.
SinceMonday(t) == (t + UTCOffset + 3 * 86400) % 604800
SlotOffset(j) == j.day_of_week * 86400 + j.hour * 3600 + j.minute * 60

\* Mutant: the occurrence of the slot in the current week is taken even
\* when it has passed.
get_next_fire_time_this_week(j, previous_fire_time, now) ==
  LET start == IF previous_fire_time = None THEN now
               ELSE previous_fire_time[1] + 1
  IN (start - SinceMonday(start)) + SlotOffset(j)

\* CronTrigger(day_of_week, hour, minute).get_next_fire_time: the fields
\* that are not given and are finer than the given ones take their minimum,
\* so the trigger fires at second 0 of the slot's minute; the search starts
\* at `now` (rounded up to a whole second) for a job that has not fired, and
\* just after the previous fire time for one that has, and returns the
\* first moment from there on that matches, the starting moment included.
\* Moments are whole seconds here, so the rounding changes nothing.
get_next_fire_time(j, previous_fire_time, now) ==
  LET start == IF previous_fire_time = None THEN now
               ELSE previous_fire_time[1] + 1
  IN start + ((SlotOffset(j) - SinceMonday(start)) % 604800)

\* The clock at moment t with no job timed.
ClockAt(t) ==
  [now |-> t, next_run_time |-> None, added_at |-> t, airing_at |-> t,
   previous_fire_time |-> None, fires |-> 0, ticks |-> 0]

\* on_ready: start the scheduler unless it is running.
on_ready ==
  /\ running' = TRUE
  /\ UNCHANGED <<WATCH_LIST, announced_episodes, jobs, sent, pending,
                 lastNotify, flow, clock>>

\* Mutant: the job moves on to the next episode after each firing.
FireJob_next_episode(j, channel) ==
  /\ running
  /\ j \in jobs
  /\ check_and_announce_episode(j.args[1], j.args[2], channel)
  /\ jobs' = (jobs \ {j}) \cup
              {[j EXCEPT !.args = <<j.args[1], j.args[2] + 1>>]}
  /\ UNCHANGED <<WATCH_LIST, running, flow, clock>>

\* Mutant: jobs fire although the scheduler was never started.
FireJob_not_started(j, channel) ==
  /\ j \in jobs
  /\ check_and_announce_episode(j.args[1], j.args[2], channel)
  /\ UNCHANGED <<WATCH_LIST, jobs, running, flow, clock>>

\* A weekly occurrence of job j's slot: the running scheduler calls
\* check_and_announce_episode(*j.args).
FireJob(j, channel) ==
  /\ running
  /\ j \in jobs
  /\ check_and_announce_episode(j.args[1], j.args[2], channel)
  /\ UNCHANGED <<WATCH_LIST, jobs, running, flow, clock>>

\* ------------------------------------------------------------------------
\* add_watch and AnimePager
\* ------------------------------------------------------------------------
\* An invocation that is not running.  outcome, chosen and added are what
\* its latest run told the user: the message it ended with ("raised" for an
\* exception leaving add_watch), the display title and the `added` flag.
Idle(outcome, chosen, added) ==
  [pc |-> "idle", title |-> "", results |-> <<>>, index |-> 0,
   selected |-> None, pressed |-> "none", inflight |-> {}, cause |-> "none",
   outcome |-> outcome, chosen |-> chosen, added |-> added]

\* Mutant: romaji is preferred to English, as in parse_addwatch_result.
resolve_title_romaji_first(en, ro, title) ==
  IF Truthy(ro) THEN ro[1] ELSE IF Truthy(en) THEN en[1] ELSE title

\* en or ro or title  (main.py:336, 339)
resolve_title(en, ro, title) ==
  IF Truthy(en) THEN en[1] ELSE IF Truthy(ro) THEN ro[1] ELSE title

\* Mutant: the test is inverted (`chosen in WATCH_LIST`), so a new title is
\* never appended.
in_watch_list(chosen) == chosen \in Range(WATCH_LIST)

\* Mutant: the test for a title already in the list is missing.
not_in_watch_list_always(chosen) == TRUE

\* `chosen not in WATCH_LIST`  (main.py:341)
not_in_watch_list(chosen) == chosen \notin Range(WATCH_LIST)

globals == <<WATCH_LIST, announced_episodes, jobs, running, sent, pending,
             lastNotify, clock>>

\* Mutant: the `if not results` test is missing, the pager is shown for an
\* empty result list.
StartAddWatch_unchecked(f, title, results) ==
  /\ flow[f].pc = "idle"
  /\ flow' = [flow EXCEPT ![f] =
       [pc |-> "selecting", title |-> title, results |-> results,
        index |-> 0, selected |-> None, pressed |-> "none",
        inflight |-> {}, cause |-> "none", outcome |-> "none",
        chosen |-> None, added |-> FALSE]]
  /\ UNCHANGED globals

\* !addwatch <title>: search, then show the pager and wait on it
\* (main.py:308-317).
StartAddWatch(f, title, results) ==
  /\ flow[f].pc = "idle"
  /\ flow' = [flow EXCEPT ![f] =
       IF results = <<>> THEN Idle("no_results", None, FALSE)
       ELSE [pc |-> "selecting", title |-> title, results |-> results,
             index |-> 0, selected |-> None, pressed |-> "none",
             inflight |-> {}, cause |-> "none", outcome |-> "none",
             chosen |-> None, added |-> FALSE]]
  /\ UNCHANGED globals

prev_button(f) ==
  /\ flow[f].pc = "selecting"
  /\ flow' = [flow EXCEPT ![f].index = IF @ > 0 THEN @ - 1 ELSE @]
  /\ UNCHANGED globals

\* Mutant: Next does not test for the last candidate.
next_button_unguarded(f) ==
  /\ flow[f].pc = "selecting"
  /\ flow' = [flow EXCEPT ![f].index = @ + 1]
  /\ UNCHANGED globals

next_button(f) ==
  /\ flow[f].pc = "selecting"
  /\ flow' = [flow EXCEPT ![f].index =
                IF @ < Len(flow[f].results) - 1 THEN @ + 1 ELSE @]
  /\ UNCHANGED globals

\* Mutant: Confirm selects the first candidate whatever the index is.
confirm_button_first(f) ==
  /\ flow[f].pc = "selecting"
  /\ flow' = [flow EXCEPT
       ![f].selected = Some(flow[f].results[1]),
       ![f].pressed = "confirm",
       ![f].inflight = @ \cup {"confirm"}]
  /\ UNCHANGED globals

\* confirm_button up to `await interaction.response.edit_message`.
confirm_button(f) ==
  /\ flow[f].pc = "selecting"
  /\ flow' = [flow EXCEPT
       ![f].selected = Some(flow[f].results[flow[f].index + 1]),
       ![f].pressed = "confirm",
       ![f].inflight = @ \cup {"confirm"}]
  /\ UNCHANGED globals

\* Mutant: Cancel leaves an earlier selection in place.
cancel_button_keeps_selected(f) ==
  /\ flow[f].pc = "selecting"
  /\ flow' = [flow EXCEPT ![f].pressed = "cancel",
                          ![f].inflight = @ \cup {"cancel"}]
  /\ UNCHANGED globals

\* cancel_button up to `await interaction.response.edit_message`.
cancel_button(f) ==
  /\ flow[f].pc = "selecting"
  /\ flow' = [flow EXCEPT ![f].selected = None,
                          ![f].pressed = "cancel",
                          ![f].inflight = @ \cup {"cancel"}]
  /\ UNCHANGED globals

\* The awaited edit_message of handler h returns and the handler calls
\* self.stop(), or it raises and the handler ends without stopping the view.
\* Once the view is stopped the handlers still in flight can only call
\* stop() again, which does nothing.
HandlerResumes(f, h, ok) ==
  /\ flow[f].pc = "selecting"
  /\ h \in flow[f].inflight
  /\ flow' = [flow EXCEPT ![f] =
       IF ok THEN [@ EXCEPT !.pc = "stopped", !.cause = h, !.inflight = {}]
       ELSE [@ EXCEPT !.inflight = @ \ {h}]]
  /\ UNCHANGED globals

\* The view's 60 s pass: the view is stopped and on_timeout runs.
on_timeout(f) ==
  /\ flow[f].pc = "selecting"
  /\ flow' = [flow EXCEPT ![f].pc = "stopped", ![f].cause = "timeout",
                          ![f].inflight = {}]
  /\ UNCHANGED globals

\* Mutant: the announcement is scheduled only for a title that was not in
\* the list.
AddWatchResumes_schedules_new_only(f) ==
  /\ flow[f].pc = "stopped"
  /\ IF flow[f].selected = None
     THEN /\ flow' = [flow EXCEPT ![f] = Idle("cancelled", None, FALSE)]
          /\ UNCHANGED <<WATCH_LIST, jobs>>
     ELSE LET item     == flow[f].selected[1]
              chosen   == resolve_title(item.title.english, item.title.romaji,
                                        flow[f].title)
              added    == not_in_watch_list(chosen)
              nae      == item.nextAiringEpisode
              airingAt == IF nae = None THEN None ELSE nae[1].airingAt
              episode  == IF nae = None THEN None ELSE nae[1].episode
              sched    == schedule_episode_from_watchlist(
                            chosen, airingAt[1], episode[1])
          IN /\ WATCH_LIST' =
                  IF added THEN Append(WATCH_LIST, chosen) ELSE WATCH_LIST
             /\ IF added /\ airingAt # None /\ episode # None
                THEN IF sched = None
                     THEN /\ jobs' = jobs
                          /\ flow' = [flow EXCEPT ![f] =
                                        Idle("raised", Some(chosen), added)]
                     ELSE /\ jobs' = sched[1]
                          /\ flow' = [flow EXCEPT ![f] =
                               Idle(IF added THEN "added" ELSE "already",
                                    Some(chosen), added)]
                ELSE /\ jobs' = jobs
                     /\ flow' = [flow EXCEPT ![f] =
                          Idle(IF added THEN "added" ELSE "already",
                               Some(chosen), added)]
  /\ UNCHANGED <<announced_episodes, running, sent, pending, lastNotify,
                 clock>>

\* add_watch from the return of view.wait() to its end (main.py:319-359).
\* Nothing between main.py:332 and 351 awaits.
AddWatchResumes(f) ==
  /\ flow[f].pc = "stopped"
  /\ IF flow[f].selected = None
     THEN /\ flow' = [flow EXCEPT ![f] = Idle("cancelled", None, FALSE)]
          /\ UNCHANGED <<WATCH_LIST, jobs>>
     ELSE LET item     == flow[f].selected[1]
              chosen   == resolve_title(item.title.english, item.title.romaji,
                                        flow[f].title)
              added    == not_in_watch_list(chosen)
              nae      == item.nextAiringEpisode
              airingAt == IF nae = None THEN None ELSE nae[1].airingAt
              episode  == IF nae = None THEN None ELSE nae[1].episode
              sched    == schedule_episode_from_watchlist(
                            chosen, airingAt[1], episode[1])
          IN /\ WATCH_LIST' =
                  IF added THEN Append(WATCH_LIST, chosen) ELSE WATCH_LIST
             /\ IF airingAt # None /\ episode # None
                THEN IF sched = None
                     THEN /\ jobs' = jobs
                          /\ flow' = [flow EXCEPT ![f] =
                                        Idle("raised", Some(chosen), added)]
                     ELSE /\ jobs' = sched[1]
                          /\ flow' = [flow EXCEPT ![f] =
                               Idle(IF added THEN "added" ELSE "already",
                                    Some(chosen), added)]
                ELSE /\ jobs' = jobs
                     /\ flow' = [flow EXCEPT ![f] =
                          Idle(IF added THEN "added" ELSE "already",
                               Some(chosen), added)]
  /\ UNCHANGED <<announced_episodes, running, sent, pending, lastNotify,
                 clock>>

\* ------------------------------------------------------------------------
\* The program
\* ------------------------------------------------------------------------
Init ==
  /\ WATCH_LIST = <<>>
  /\ announced_episodes = {}
  /\ jobs = {}
  /\ running = FALSE
  /\ sent = [k \in {} |-> 0]
  /\ pending = {}
  /\ lastNotify = "none"
  /\ flow = [f \in Flows |-> Idle("none", None, FALSE)]
  /\ clock = ClockAt(0)

Next ==
  \/ on_ready
  \/ \E j \in jobs, channel \in BOOLEAN : FireJob(j, channel)
  \/ \E call \in pending, ok \in BOOLEAN : SendCompletes(call, ok)
  \/ \E f \in Flows, title \in RawInputs, results \in SearchResponses :
       StartAddWatch(f, title, results)
  \/ \E f \in Flows : prev_button(f)
  \/ \E f \in Flows : next_button(f)
  \/ \E f \in Flows : confirm_button(f)
  \/ \E f \in Flows : cancel_button(f)
  \/ \E f \in Flows, h \in {"confirm", "cancel"}, ok \in BOOLEAN :
       HandlerResumes(f, h, ok)
  \/ \E f \in Flows : on_timeout(f)
  \/ \E f \in Flows : AddWatchResumes(f)

\* Time is abstract in Next: the running scheduler may fire a registered job
\* in any state, and the clock stands still.
Spec == Init /\ [][Next]_vars

\* ------------------------------------------------------------------------
\* Vocabulary of the properties
\* ------------------------------------------------------------------------
\* Flow f's add_watch resumes with a confirmed selection (main.py:332-359).
ConfirmedStep(f) ==
  /\ flow[f].pc = "stopped"
  /\ flow[f].selected # None
  /\ flow'[f].pc = "idle"

\* The title a confirmed candidate is to be stored under: English if
\* non-empty, else romaji if non-empty, else what the user typed.
ExpectedTitle(f) ==
  LET t == flow[f].selected[1].title
  IN CASE t.english # None /\ t.english # Some("") -> t.english[1]
       [] OTHER -> CASE t.romaji # None /\ t.romaji # Some("") -> t.romaji[1]
                     [] OTHER -> flow[f].title

\* The confirmed candidate carries both halves of the next-airing pair.
HasPair(f) ==
  /\ flow[f].selected[1].nextAiringEpisode # None
  /\ flow[f].selected[1].nextAiringEpisode[1].airingAt # None
  /\ flow[f].selected[1].nextAiringEpisode[1].episode # None

PairAt(f) == flow[f].selected[1].nextAiringEpisode[1].airingAt[1]
PairEpisode(f) == flow[f].selected[1].nextAiringEpisode[1].episode[1]

\* The jobs of a store that announce `title`.
JobsOf(store, title) == {j \in store : j.args[1] = title}

\* Job j's weekly slot is the local weekday, hour and minute of timestamp
\* ts: ts lies in the minute that starts the slot's offset into some week
\* (weeks counted from a Monday 00:00 local time; the epoch is a Thursday).
SlotIsOf(j, ts) ==
  /\ j.day_of_week \in 0..6 /\ j.hour \in 0..23 /\ j.minute \in 0..59
  /\ ((ts + UTCOffset + 3 * 86400)
        - (j.day_of_week * 86400 + j.hour * 3600 + j.minute * 60))
       % 604800 < 60

NoDuplicates(s) == \A i, k \in DOMAIN s : s[i] = s[k] => i = k

\* ------------------------------------------------------------------------
\* C1  At-most-once notification: whatever add-watch confirmations,
\* re-schedulings and firings happen, no announcement key (title-episode)
\* is ever the subject of more than one channel.send call.
\* ------------------------------------------------------------------------
C1_AtMostOneSendPerKey == \A k \in DOMAIN sent : sent[k] <= 1

\* A key was sent once, its job is still registered, and the job's latest
\* firing found the key announced and sent nothing.
C1_Witness ==
  /\ lastNotify = "duplicate"
  /\ \E j \in jobs :
       /\ unique_key(j.args[1], j.args[2]) \in DOMAIN sent
       /\ sent[unique_key(j.args[1], j.args[2])] = 1

\* ------------------------------------------------------------------------
\* C2  Re-scheduling replaces: no state holds two jobs for one title, and a
\* confirmed add whose title already has a job leaves exactly one job for
\* that title, with the slot of the new timestamp and the new episode.
\* ------------------------------------------------------------------------
C2_OneJobPerTitle == \A j1, j2 \in jobs : j1.args[1] = j2.args[1] => j1 = j2

C2_Reschedule ==
  \A f \in Flows :
    (/\ ConfirmedStep(f)
     /\ HasPair(f)
     /\ PairAt(f) >= 0
     /\ JobsOf(jobs, ExpectedTitle(f)) # {})
    => /\ Cardinality(JobsOf(jobs', ExpectedTitle(f))) = 1
       /\ \A j \in JobsOf(jobs', ExpectedTitle(f)) :
            /\ j.args[2] = PairEpisode(f)
            /\ SlotIsOf(j, PairAt(f))

C2_ReschedulingReplaces == [](C2_OneJobPerTitle) /\ [][C2_Reschedule]_vars

\* "Ab" was scheduled for episode 1 (which fired) and then again for
\* episode 2 on another slot: one job is left, the second one.
C2_Witness ==
  /\ "Ab-1" \in announced_episodes
  /\ Cardinality(JobsOf(jobs, "Ab")) = 1
  /\ \A j \in JobsOf(jobs, "Ab") : j.args[2] = 2 /\ j.day_of_week = 0

\* ------------------------------------------------------------------------
\* C3  Watch-list add is idempotent and duplicate-free: a confirmed
\* candidate whose resolved title is in the list verbatim is reported as not
\* newly added and leaves the list as it is, any other is appended at the
\* end; the list never holds two equal entries and only grows at its end.
\* ------------------------------------------------------------------------
C3_Add ==
  \A f \in Flows :
    ConfirmedStep(f) =>
      IF ExpectedTitle(f) \in Range(WATCH_LIST)
      THEN /\ WATCH_LIST' = WATCH_LIST
           /\ flow'[f].added = FALSE
           /\ flow'[f].outcome # "added"
      ELSE /\ WATCH_LIST' = Append(WATCH_LIST, ExpectedTitle(f))
           /\ flow'[f].added = TRUE
           /\ flow'[f].outcome # "already"

C3_KeepsOrder ==
  /\ Len(WATCH_LIST') >= Len(WATCH_LIST)
  /\ SubSeq(WATCH_LIST', 1, Len(WATCH_LIST)) = WATCH_LIST

C3_IdempotentAdd ==
  /\ [](NoDuplicates(WATCH_LIST))
  /\ [][C3_Add /\ C3_KeepsOrder]_vars

\* The list holds "Ab" and "ab" (equal but for case) and a confirmation just
\* found its title in the list.
C3_Witness ==
  /\ \E f \in Flows : flow[f].outcome = "already"
  /\ {"Ab", "ab"} \subseteq Range(WATCH_LIST)

\* ------------------------------------------------------------------------
\* C4  Title resolution on a confirmed add: the entry in the watch list,
\* the title shown to the user and the title of the job that is registered
\* are the English title if non-empty, else the romaji title if non-empty,
\* else the raw input.
\* ------------------------------------------------------------------------
C4_Resolved ==
  \A f \in Flows :
    ConfirmedStep(f) =>
      /\ ExpectedTitle(f) \in Range(WATCH_LIST')
      /\ Range(WATCH_LIST') \subseteq Range(WATCH_LIST) \cup {ExpectedTitle(f)}
      /\ flow'[f].chosen = Some(ExpectedTitle(f))
      /\ \A j \in jobs' \ jobs :
           /\ j.args[1] = ExpectedTitle(f)
           /\ j.id = ExpectedTitle(f) \o "-weekly"

C5_EndsUnconfirmed(f) ==
  /\ flow[f].pc = "stopped"
  /\ flow[f].cause \in {"cancel", "timeout"}
  /\ flow[f].pressed # "confirm"

C5_Frame ==
  \A f \in Flows :
    (flow'[f] # flow[f] /\ (flow[f].pc # "stopped" \/ C5_EndsUnconfirmed(f)))
    => /\ UNCHANGED <<WATCH_LIST, jobs, announced_episodes>>
       /\ C5_EndsUnconfirmed(f) => flow'[f].outcome = "cancelled"

C6_Derive ==
  \A f \in Flows :
    (/\ ConfirmedStep(f)
     /\ HasPair(f)
     /\ PairAt(f) >= 0
     /\ JobsOf(jobs, ExpectedTitle(f)) = {})
    => /\ Cardinality(JobsOf(jobs', ExpectedTitle(f))) = 1
       /\ \A j \in JobsOf(jobs', ExpectedTitle(f)) :
            /\ j.args = <<ExpectedTitle(f), PairEpisode(f)>>
            /\ SlotIsOf(j, PairAt(f))
       /\ jobs' \ JobsOf(jobs', ExpectedTitle(f)) = jobs

C6_JobDerivation == [][C6_Derive]_vars

\* The job of "x" came from 2025-11-09 23:59:59 UTC, episode 2: local time
\* is an hour ahead, Monday 00:59.
C6_Witness ==
  /\ JobsOf(jobs, "Ab") = {}
  /\ \E j \in JobsOf(jobs, "x") :
       j.args[2] = 2 /\ j.day_of_week = 0 /\ j.hour = 0 /\ j.minute = 59

\* ------------------------------------------------------------------------
\* C7  Fixed episode on every firing: a firing announces only the (title,
\* episode) a registered job stores, no firing changes a job, and a job
\* leaves the store only when its title is scheduled again.
\* ------------------------------------------------------------------------
C7_Fixed ==
  /\ \A k \in announced_episodes' \ announced_episodes :
       \E j \in jobs : k = unique_key(j.args[1], j.args[2])
  /\ \A c \in pending' \ pending : \E j \in jobs : c = j.args
  /\ (announced_episodes' # announced_episodes \/ lastNotify' # lastNotify)
       => jobs' = jobs
  /\ \A j \in jobs \ jobs' :
       \E f \in Flows :
         ConfirmedStep(f) /\ HasPair(f) /\ ExpectedTitle(f) = j.args[1]

C7_FixedEpisode == [][C7_Fixed]_vars

\* The job of "Ab" for episode 2 fired, was delivered, and fired again with
\* the same episode.
C7_Witness ==
  /\ lastNotify = "duplicate"
  /\ pending = {}
  /\ \E j \in JobsOf(jobs, "Ab") :
       j.args[2] = 2 /\ "Ab-2" \in announced_episodes

\* ------------------------------------------------------------------------
\* C8  As claimed: whenever a notification attempt fails, for want of a
\* channel or because the send is rejected, its key is announced afterwards.
\* ------------------------------------------------------------------------
C8_FailedAttemptClaims ==
  /\ \A j \in jobs :
       FireJob(j, FALSE)
         => unique_key(j.args[1], j.args[2]) \in announced_episodes'
  /\ \A c \in pending :
       SendCompletes(c, FALSE)
         => unique_key(c[1], c[2]) \in announced_episodes'

C8_AsClaimed == [][C8_FailedAttemptClaims]_vars

\* ------------------------------------------------------------------------
\* C8  As amended: a rejected send does not roll back the claim: no key
\* ever leaves the announced set, the key of a rejected send is in it, and
\* nothing is sent again for a key that is in it.  An attempt that finds no
\* channel claims nothing and sends nothing.
\* ------------------------------------------------------------------------
C8_NoRollback ==
  /\ announced_episodes \subseteq announced_episodes'
  /\ \A k \in announced_episodes \cap DOMAIN sent : sent'[k] = sent[k]
  /\ (lastNotify' = "rejected" /\ pending' # pending)
       => \A c \in pending \ pending' :
            unique_key(c[1], c[2]) \in announced_episodes'
  /\ (lastNotify' = "no_channel" /\ lastNotify # "no_channel")
       => announced_episodes' = announced_episodes /\ sent' = sent

C8_RejectedSendKeepsClaim == [][C8_NoRollback]_vars

\* A send was rejected; its key is announced and was sent once.
C8_Witness ==
  /\ lastNotify = "rejected"
  /\ pending = {}
  /\ \E k \in announced_episodes : k \in DOMAIN sent /\ sent[k] = 1

\* ------------------------------------------------------------------------
\* C9  Unresolvable channel is tolerated: a firing that finds no channel
\* sends nothing, claims nothing, leaves every job registered and the
\* scheduler running.
\* ------------------------------------------------------------------------
C9_NoChannel ==
  (lastNotify' = "no_channel" /\ lastNotify # "no_channel")
  => /\ sent' = sent
     /\ pending' = pending
     /\ announced_episodes' = announced_episodes
     /\ jobs' = jobs
     /\ jobs # {}
     /\ running'

C9_UnresolvableChannelTolerated == [][C9_NoChannel]_vars

\* The latest firing found no channel; two jobs are registered.
C9_Witness ==
  /\ lastNotify = "no_channel"
  /\ running
  /\ Cardinality(jobs) >= 2

\* ------------------------------------------------------------------------
\* C10  Scheduling errors are surfaced without undoing the add: when the
\* confirmed candidate's timestamp cannot be converted, add_watch ends with
\* the error, the resolved title is in the watch list and no job changed.
\* ------------------------------------------------------------------------
C10_Surfaced ==
  \A f \in Flows :
    (ConfirmedStep(f) /\ HasPair(f) /\ PairAt(f) < 0)
    => /\ flow'[f].outcome = "raised"
       /\ ExpectedTitle(f) \in Range(WATCH_LIST')
       /\ jobs' = jobs

C10_SchedulingErrorSurfaced == [][C10_Surfaced]_vars

\* add_watch raised after it had appended the title; a job is registered.
C10_Witness ==
  /\ \E f \in Flows :
       /\ flow[f].outcome = "raised"
       /\ flow[f].added
       /\ flow[f].chosen[1] \in Range(WATCH_LIST)
  /\ jobs # {}

\* ------------------------------------------------------------------------
\* C12  A search that fails or finds nothing mutates nothing: the add-watch
\* invocation ends with "no results" without showing the pager; the watch
\* list, the jobs and the announced set stay as they were; the invocation
\* is over, so that the next command starts from the same state, and the
\* registered jobs stay ready to fire.
\* ------------------------------------------------------------------------
C12_Abandoned ==
  \A f \in Flows :
    (flow[f].pc = "idle" /\ flow'[f] # flow[f])
    => /\ UNCHANGED <<WATCH_LIST, jobs, announced_episodes, running>>
       /\ flow'[f].pc = "selecting" => flow'[f].results # <<>>
       /\ flow'[f].pc # "selecting"
            => /\ flow'[f].pc = "idle"
               /\ flow'[f].outcome = "no_results"
               /\ flow'[f].chosen = None
               /\ flow'[f].selected = None
               /\ ~flow'[f].added

C12_CommandsProceed ==
  \A f \in Flows :
    flow[f].outcome = "no_results"
    => /\ ENABLED StartAddWatch(f, "x", <<>>)
       /\ \A j \in jobs : running => ENABLED FireJob(j, TRUE)

C12_SearchErrorMutatesNothing ==
  [](C12_CommandsProceed) /\ [][C12_Abandoned]_vars

\* A search found nothing while titles were watched, a job was registered
\* and a notification was being sent.
C12_Witness ==
  /\ \E f \in Flows : flow[f].pc = "idle" /\ flow[f].outcome = "no_results"
  /\ WATCH_LIST # <<>>
  /\ jobs # {}
  /\ pending # {}

\* ------------------------------------------------------------------------
\* C14  The claim of a key is atomic with respect to suspension: a key is
\* in the announced set from the step that starts its send, before the send
\* is awaited, so an invocation for the same key that starts while that send
\* is pending finds the key announced and sends nothing; of the invocations
\* for one key exactly one sends.
\* ------------------------------------------------------------------------
\* Every send that is awaited belongs to a key claimed and counted once.
C14_ClaimedBeforeSend ==
  \A c \in pending :
    /\ unique_key(c[1], c[2]) \in announced_episodes
    /\ unique_key(c[1], c[2]) \in DOMAIN sent
    /\ sent[unique_key(c[1], c[2])] = 1

\* A step that starts a send starts it for one key that no invocation had
\* claimed, and no step starts a send for a key whose send is pending.
C14_OneSender ==
  /\ \A c \in pending' \ pending :
       /\ unique_key(c[1], c[2]) \notin announced_episodes
       /\ \A d \in pending : unique_key(d[1], d[2]) # unique_key(c[1], c[2])
       /\ announced_episodes' =
            announced_episodes \cup {unique_key(c[1], c[2])}
  /\ Cardinality(pending' \ pending) <= 1
  /\ \A c \in pending :
       /\ unique_key(c[1], c[2]) \in DOMAIN sent'
       /\ sent'[unique_key(c[1], c[2])] = 1

C14_AtomicClaim == [](C14_ClaimedBeforeSend) /\ [][C14_OneSender]_vars

\* The send for the only key ever claimed is still pending, and a second
\* invocation, which can only have been for that key, ended as a duplicate.
C14_Witness ==
  /\ lastNotify = "duplicate"
  /\ Cardinality(announced_episodes) = 1
  /\ \E c \in pending :
       /\ announced_episodes = {unique_key(c[1], c[2])}
       /\ sent[unique_key(c[1], c[2])] = 1

\* ------------------------------------------------------------------------
\* C16  As claimed: on a confirmed add a job for the resolved title, on the
\* slot of the candidate's timestamp, is in the store if the candidate
\* carries a next-airing timestamp, and the store is unchanged if it does
\* not.
\* ------------------------------------------------------------------------
C16_CarriesTimestamp(f) ==
  /\ flow[f].selected[1].nextAiringEpisode # None
  /\ flow[f].selected[1].nextAiringEpisode[1].airingAt # None

C16_JobIffTimestamp ==
  \A f \in Flows :
    ConfirmedStep(f) =>
      IF C16_CarriesTimestamp(f)
      THEN \E j \in JobsOf(jobs', ExpectedTitle(f)) : SlotIsOf(j, PairAt(f))
      ELSE jobs' = jobs

C16_AsClaimed == [][C16_JobIffTimestamp]_vars

\* ------------------------------------------------------------------------
\* C16  As amended: on a confirmed add a job for the resolved title, with
\* the candidate's episode and the slot of its timestamp, is in the store
\* and the jobs of other titles are as before if the candidate carries both
\* a timestamp and an episode and the timestamp can be converted; the store
\* is unchanged if the timestamp or the episode is missing or the
\* conversion fails.  No other step changes the store.
\* ------------------------------------------------------------------------
C16_JobIffPair ==
  /\ \A f \in Flows :
       ConfirmedStep(f) =>
         IF HasPair(f) /\ PairAt(f) >= 0
         THEN /\ \E j \in jobs' :
                   /\ j.args = <<ExpectedTitle(f), PairEpisode(f)>>
                   /\ SlotIsOf(j, PairAt(f))
              /\ jobs' \ JobsOf(jobs', ExpectedTitle(f))
                   = jobs \ JobsOf(jobs, ExpectedTitle(f))
         ELSE jobs' = jobs
  /\ jobs' # jobs => \E f \in Flows : ConfirmedStep(f)

C16_JobExactlyWhenPair == [][C16_JobIffPair]_vars

\* "ab" was confirmed from a candidate with a timestamp and no episode and
\* has no job; "Ab", confirmed with both, has one.
C16_Witness ==
  /\ \E f \in Flows : flow[f].pc = "idle" /\ flow[f].chosen = Some("ab")
  /\ "ab" \in Range(WATCH_LIST)
  /\ JobsOf(jobs, "ab") = {}
  /\ JobsOf(jobs, "Ab") # {}

\* ------------------------------------------------------------------------
\* C18  Every job belongs to a watched title: in every reachable state the
\* title a registered job announces is an entry of the watch list, and the
\* job's id is that title followed by "-weekly".
\* ------------------------------------------------------------------------
C18_JobsAreWatched ==
  \A j \in jobs :
    /\ j.args[1] \in Range(WATCH_LIST)
    /\ j.id = j.args[1] \o "-weekly"

\* Three titles are watched, two of them have a job, "ab" has none.
C18_Witness ==
  /\ Len(WATCH_LIST) = 3
  /\ Cardinality(jobs) = 2
  /\ \E j \in jobs : j.args[1] = WATCH_LIST[3]

\* ------------------------------------------------------------------------
\* C19  Re-adding a watched title re-schedules it: a confirmed candidate
\* whose resolved title is already in the watch list and that carries a
\* convertible timestamp and an episode leaves the list as it is, is
\* reported as already watched, and leaves one job for the title, the one
\* of the new timestamp and episode, whether the title had a job or not.
\* ------------------------------------------------------------------------
C19_Readd ==
  \A f \in Flows :
    (/\ ConfirmedStep(f)
     /\ ExpectedTitle(f) \in Range(WATCH_LIST)
     /\ HasPair(f)
     /\ PairAt(f) >= 0)
    => /\ WATCH_LIST' = WATCH_LIST
       /\ flow'[f].outcome = "already"
       /\ flow'[f].chosen = Some(ExpectedTitle(f))
       /\ \E j \in jobs' :
            /\ JobsOf(jobs', ExpectedTitle(f)) = {j}
            /\ j.args[2] = PairEpisode(f)
            /\ SlotIsOf(j, PairAt(f))
            /\ j \notin jobs => JobsOf(jobs, ExpectedTitle(f)) \cap jobs' = {}

C19_ReaddReschedules == [][C19_Readd]_vars

\* "Ab" had a job for episode 2, which fired; "Ab" was then confirmed again
\* with episode 1: the flow reported it as already watched, the list holds
\* it once and its job is the one for episode 1.
C19_Witness ==
  /\ \E f \in Flows :
       /\ flow[f].pc = "idle"
       /\ flow[f].outcome = "already"
       /\ flow[f].chosen = Some("Ab")
  /\ "Ab-2" \in announced_episodes
  /\ "Ab-1" \notin announced_episodes
  /\ \E j \in jobs : JobsOf(jobs, "Ab") = {j} /\ j.args[2] = 1
  /\ Cardinality({i \in DOMAIN WATCH_LIST : WATCH_LIST[i] = "Ab"}) = 1

\* ------------------------------------------------------------------------
\* C20  The pager position stays in range: a pager is only shown for n >= 1
\* candidates, and as long as it exists its index is in 0..n-1; a press of
\* Prev or Next moves the index by at most one, so Prev at the first and
\* Next at the last candidate leave it where it is; what Confirm selected is
\* one of the candidates.
\* ------------------------------------------------------------------------
C20_InRange ==
  \A f \in Flows :
    flow[f].pc \in {"selecting", "stopped"}
    => /\ Len(flow[f].results) >= 1
       /\ flow[f].index \in 0..(Len(flow[f].results) - 1)
       /\ flow[f].selected # None
            => flow[f].selected[1] \in Range(flow[f].results)

C20_Moves ==
  \A f \in Flows :
    (flow[f].pc = "selecting" /\ flow'[f].pc # "idle")
    => /\ flow'[f].results = flow[f].results
       /\ flow'[f].index \in
            {flow[f].index - 1, flow[f].index, flow[f].index + 1}
       /\ flow'[f].index \in 0..(Len(flow[f].results) - 1)
       /\ flow'[f].selected \notin {None, flow[f].selected}
            => flow'[f].selected =
                 Some(flow[f].results[flow[f].index + 1])

C20_IndexInRange == [](C20_InRange) /\ [][C20_Moves]_vars

\* The pager of three candidates stands at the last one, which Confirm
\* selected.
C20_Witness ==
  \E f \in Flows :
    /\ flow[f].pc = "selecting"
    /\ Len(flow[f].results) = 3
    /\ flow[f].index = 2
    /\ flow[f].selected = Some(flow[f].results[3])

\* ------------------------------------------------------------------------
\* C13  As claimed: while the system runs, a schedule entry for a watched
\* title whose key has not been claimed is notified, that is, the program
\* has a step that claims the key and sends for it.
\* ------------------------------------------------------------------------
\* The episode numbers of the schedule entries considered.
PollEpisodes == {1, 2}

C13_OnlyFirings ==
  /\ sent' # sent
       => /\ running
          /\ \E j \in jobs :
               /\ unique_key(j.args[1], j.args[2]) \notin announced_episodes
               /\ announced_episodes' = announced_episodes
                    \cup {unique_key(j.args[1], j.args[2])}
               /\ DOMAIN sent' =
                    DOMAIN sent \cup {unique_key(j.args[1], j.args[2])}
               /\ sent'[unique_key(j.args[1], j.args[2])] = 1
               /\ \A k \in DOMAIN sent : sent'[k] = sent[k]
  /\ \A j \in jobs :
       FireJob(j, TRUE)
         => (sent' # sent
               <=> unique_key(j.args[1], j.args[2]) \notin announced_episodes)
  /\ lastNotify' = "duplicate"
       => sent' = sent /\ announced_episodes' = announced_episodes

C13_NoJobNoStep ==
  \A t \in Range(WATCH_LIST), e \in PollEpisodes :
    (/\ unique_key(t, e) \notin announced_episodes
     /\ \A j \in jobs : j.args # <<t, e>>)
    => ~ ENABLED (Next /\ unique_key(t, e) \in announced_episodes')

PagerNext ==
  \/ \E f \in Flows, title \in RawInputs, results \in SearchResponses :
       StartAddWatch(f, title, results)
  \/ \E f \in Flows : prev_button(f)
  \/ \E f \in Flows : next_button(f)
  \/ \E f \in Flows : confirm_button(f)
  \/ \E f \in Flows : cancel_button(f)
  \/ \E f \in Flows, h \in {"confirm", "cancel"}, ok \in BOOLEAN :
       HandlerResumes(f, h, ok)
  \/ \E f \in Flows : on_timeout(f)
  \/ \E f \in Flows : AddWatchResumes(f)

FairSpec ==
  /\ Init
  /\ [][PagerNext]_vars
  /\ \A f \in Flows : WF_vars(on_timeout(f)) /\ WF_vars(AddWatchResumes(f))

\* ------------------------------------------------------------------------
\* C11  A selection flow ends in exactly one outcome: a pager that is shown
\* is eventually stopped (by Confirm, by Cancel or by the timeout) and its
\* flow then ends either with the selected candidate or as cancelled / timed
\* out, never both; a selection is always the candidate at the index the
\* pager had when Confirm was pressed; once the view is stopped nothing
\* navigates it or changes its selection, the only step left is the end of
\* the flow.
\* ------------------------------------------------------------------------
C11_Terminates ==
  \A f \in Flows :
    (flow[f].pc = "selecting")
      ~> (flow[f].pc = "idle"
            /\ flow[f].outcome \in {"added", "already", "raised", "cancelled"})

C11_Steps ==
  \A f \in Flows :
    /\ (flow[f].pc = "selecting" /\ flow'[f].selected # flow[f].selected)
         => /\ flow'[f].pc = "selecting"
            /\ flow'[f].index = flow[f].index
            /\ flow'[f].selected \in
                 {None, Some(flow[f].results[flow[f].index + 1])}
    /\ (flow[f].pc = "selecting" /\ flow'[f].pc = "stopped")
         => /\ flow'[f].cause \in {"confirm", "cancel", "timeout"}
            /\ flow'[f].index = flow[f].index
            /\ flow'[f].inflight = {}
    /\ (flow[f].pc = "stopped" /\ flow'[f] # flow[f])
         => /\ flow'[f].pc = "idle"
            /\ IF flow[f].selected = None
               THEN /\ flow'[f].outcome = "cancelled"
                    /\ flow'[f].chosen = None
               ELSE /\ flow'[f].outcome \in {"added", "already", "raised"}
                    /\ flow'[f].chosen = Some(ExpectedTitle(f))

ConcFlows == {1, 2}

ConcResponses ==
  {r \in SearchResponses : Len(r) = 3 /\ r[1].title.english = Some("Ab")}

ConcInit ==
  /\ WATCH_LIST = <<>>
  /\ announced_episodes = {}
  /\ jobs = {}
  /\ running = FALSE
  /\ sent = [k \in {} |-> 0]
  /\ pending = {}
  /\ lastNotify = "none"
  /\ flow = [f \in ConcFlows |-> Idle("none", None, FALSE)]
  /\ clock = ClockAt(0)

ConcNext ==
  \/ \E f \in ConcFlows, title \in RawInputs, results \in ConcResponses :
       StartAddWatch(f, title, results)
  \/ \E f \in ConcFlows : prev_button(f)
  \/ \E f \in ConcFlows : next_button(f)
  \/ \E f \in ConcFlows : confirm_button(f)
  \/ \E f \in ConcFlows : cancel_button(f)
  \/ \E f \in ConcFlows, h \in {"confirm", "cancel"}, ok \in BOOLEAN :
       HandlerResumes(f, h, ok)
  \/ \E f \in ConcFlows : on_timeout(f)
  \/ \E f \in ConcFlows : AddWatchResumes(f)

ConcSpec == ConcInit /\ [][ConcNext]_vars

\* ------------------------------------------------------------------------
\* C17  Concurrent adds of the same title converge: with two add-watch
\* flows in flight, however their steps interleave, the watch list never
\* holds a title twice and the store never holds two jobs for one title;
\* when a flow executes its schedule step the one job of its title is the
\* one of that flow's pair, so the job that remains is the one of the flow
\* that scheduled last; jobs change in no other step.
\* ------------------------------------------------------------------------
C17_OneEntryOneJob ==
  /\ NoDuplicates(WATCH_LIST)
  /\ \A j1, j2 \in jobs : j1.id = j2.id \/ j1.args[1] = j2.args[1] => j1 = j2

C17_LastWriterWins ==
  /\ \A f \in ConcFlows :
       ConfirmedStep(f) =>
         /\ Cardinality({i \in DOMAIN WATCH_LIST' :
                           WATCH_LIST'[i] = ExpectedTitle(f)}) = 1
         /\ \A g \in ConcFlows \ {f} : flow'[g] = flow[g]
         /\ (HasPair(f) /\ PairAt(f) >= 0)
              => \E j \in jobs' :
                   /\ JobsOf(jobs', ExpectedTitle(f)) = {j}
                   /\ j.args[2] = PairEpisode(f)
                   /\ SlotIsOf(j, PairAt(f))
  /\ jobs' # jobs
       => \E f \in ConcFlows : ConfirmedStep(f) /\ HasPair(f)

C17_ConcurrentAddsConverge ==
  [](C17_OneEntryOneJob) /\ [][C17_LastWriterWins]_vars

\* Flow 1 added "Ab" and scheduled episode 1; flow 2, which confirmed the
\* candidate of the same title with episode 2, has not resumed yet.
C17_Witness ==
  /\ flow[1].pc = "idle" /\ flow[1].outcome = "added"
  /\ flow[1].chosen = Some("Ab")
  /\ flow[2].pc = "stopped" /\ flow[2].selected # None
  /\ flow[2].selected[1].title.english = Some("Ab")
  /\ flow[2].selected[1].nextAiringEpisode[1].episode = Some(2)
  /\ WATCH_LIST = <<"Ab">>
  /\ \E j \in jobs : jobs = {j} /\ j.args = <<"Ab", 1>>

\* ------------------------------------------------------------------------
\* The weekly job on the clock.  The scheduler runs (on_ready has started
\* it), "Ab" is watched; a job is added for it at the moment the clock
\* shows, time passes, and the job fires when its next_run_time is due.
\* ------------------------------------------------------------------------
\* 2025-11-06 00:00:00 and 00:00:30 UTC (local Thursday 01:00) and
\* 2025-11-09 23:59:59 UTC (local Monday 00:59).
AiringTimes == {1762387200, 1762387230, 1762732799}

\* Moments around the start of the Thursday slot, 1762387200: a week and a
\* day before it, just before it, at it, within its minute, just after its
\* minute, and a day after it.
StartTimes ==
  {1761782395, 1762300800, 1762387199, 1762387200, 1762387210, 1762387260,
   1762473600}

TickSteps == {1, 30}

TimeInit ==
  /\ WATCH_LIST = <<"Ab">>
  /\ announced_episodes = {}
  /\ jobs = {}
  /\ running = TRUE
  /\ sent = [k \in {} |-> 0]
  /\ pending = {}
  /\ lastNotify = "none"
  /\ flow = [f \in Flows |-> Idle("raised", Some("Ab"), TRUE)]
  /\ \E t \in StartTimes : clock = ClockAt(t)

\* schedule_episode_from_watchlist called at the moment clock.now: add_job
\* of a running scheduler sets the job's next_run_time from the trigger.
TimedAdd(title, airing_at, episode) ==
  /\ schedule_episode_from_watchlist(title, airing_at, episode) # None
  /\ jobs' = schedule_episode_from_watchlist(title, airing_at, episode)[1]
  /\ clock' = [clock EXCEPT
       !.next_run_time =
          Some(get_next_fire_time(
                 CHOOSE j \in jobs' : j.id = title \o "-weekly",
                 None, clock.now)),
       !.added_at = clock.now,
       !.airing_at = airing_at,
       !.previous_fire_time = None]
  /\ UNCHANGED <<WATCH_LIST, announced_episodes, running, sent, pending,
                 lastNotify, flow>>

\* Time passes up to the job's next_run_time: the scheduler runs the job
\* and asks the trigger for the fire time after this one.
TimedFire(j) ==
  /\ running
  /\ j \in jobs
  /\ clock.next_run_time # None
  /\ clock.fires < MaxFirings
  /\ check_and_announce_episode(j.args[1], j.args[2], TRUE)
  /\ clock' = [clock EXCEPT
       !.now = clock.next_run_time[1],
       !.previous_fire_time = clock.next_run_time,
       !.next_run_time =
          Some(get_next_fire_time(j, clock.next_run_time,
                                  clock.next_run_time[1])),
       !.fires = @ + 1]
  /\ UNCHANGED <<WATCH_LIST, jobs, running, flow>>

\* Time passes without reaching beyond the job's next_run_time.
Tick(d) ==
  /\ clock.ticks < MaxTicks
  /\ clock.next_run_time # None => clock.now + d <= clock.next_run_time[1]
  /\ clock' = [clock EXCEPT !.now = @ + d, !.ticks = @ + 1]
  /\ UNCHANGED <<WATCH_LIST, announced_episodes, jobs, running, sent,
                 pending, lastNotify, flow>>

TimeNext ==
  \/ \E airing_at \in AiringTimes : TimedAdd("Ab", airing_at, 1)
  \/ \E j \in jobs : TimedFire(j)
  \/ \E d \in TickSteps : Tick(d)

TimeSpec == TimeInit /\ [][TimeNext]_vars

\* Moment m has the local weekday, hour and minute of timestamp ts, and
\* moment m is the start (second 0) of such a minute.
InMinuteOf(m, ts) ==
  ((m + UTCOffset) - ((ts + UTCOffset) - ((ts + UTCOffset) % 60)))
    % 604800 < 60

IsSlotStartOf(m, ts) ==
  ((m + UTCOffset) - ((ts + UTCOffset) - ((ts + UTCOffset) % 60)))
    % 604800 = 0

\* ------------------------------------------------------------------------
\* C15  As claimed: the first fire time of a job added at `now` from
\* timestamp T is the earliest moment strictly after `now` whose weekday,
\* hour and minute are those of T; it is T only if T is in the future and
\* less than a week away; every later fire time is one week after the one
\* before.
\* ------------------------------------------------------------------------
C15_AsClaimed ==
  clock.next_run_time # None =>
    IF clock.previous_fire_time = None
    THEN /\ clock.next_run_time[1] > clock.added_at
         /\ InMinuteOf(clock.next_run_time[1], clock.airing_at)
         /\ IF InMinuteOf(clock.added_at + 1, clock.airing_at)
            THEN clock.next_run_time[1] = clock.added_at + 1
            ELSE /\ IsSlotStartOf(clock.next_run_time[1], clock.airing_at)
                 /\ clock.next_run_time[1] - clock.added_at <= 604800
         /\ clock.next_run_time[1] = clock.airing_at
              => /\ clock.airing_at > clock.added_at
                 /\ clock.airing_at - clock.added_at < 604800
    ELSE clock.next_run_time[1] = clock.previous_fire_time[1] + 604800

\* ------------------------------------------------------------------------
\* C15  As amended: the first fire time of a job added at `now` from
\* timestamp T is the earliest start (second 0) of a minute with the local
\* weekday, hour and minute of T that is not before `now`; it is T only if
\* T is the start of its minute, not before `now` and less than a week
\* away; it is never in the past; every later fire time is exactly one week
\* after the one before, and the job fires at its fire time.
\* ------------------------------------------------------------------------
C15_NextRun ==
  clock.next_run_time # None =>
    /\ IsSlotStartOf(clock.next_run_time[1], clock.airing_at)
    /\ clock.next_run_time[1] >= clock.now
    /\ IF clock.previous_fire_time = None
       THEN /\ clock.next_run_time[1] >= clock.added_at
            /\ clock.next_run_time[1] - clock.added_at < 604800
            /\ clock.next_run_time[1] = clock.airing_at
                 => /\ clock.airing_at >= clock.added_at
                    /\ clock.airing_at - clock.added_at < 604800
                    /\ (clock.airing_at + UTCOffset) % 60 = 0
       ELSE clock.next_run_time[1] = clock.previous_fire_time[1] + 604800

C15_Fires ==
  clock'.fires # clock.fires
  => /\ clock.next_run_time # None
     /\ clock'.now = clock.next_run_time[1]
     /\ clock'.previous_fire_time = clock.next_run_time
     /\ clock'.now >= clock.now
     /\ clock.previous_fire_time # None
          => clock'.now = clock.previous_fire_time[1] + 604800
     /\ jobs' = jobs

C15_WeeklyFromNextSlotStart == [](C15_NextRun) /\ [][C15_Fires]_vars

\* A job was added from 2025-11-06 00:00:30 UTC within the minute of its
\* slot; it fired first at the slot's start in the week after, then a week
\* later.
C15_Witness ==
  /\ clock.fires = 2
  /\ clock.airing_at = 1762387230
  /\ InMinuteOf(clock.added_at, clock.airing_at)
  /\ clock.added_at # clock.previous_fire_time[1] - 2 * 604800
  /\ clock.previous_fire_time[1] = 1762387200 + 2 * 604800
  /\ announced_episodes = {"Ab-1"}

====
